---- MODULE Spec2Model ----
(***************************************************************************)
(* State-machine model of the gpt-service of GotchaAI/ai-server:           *)
(*   - LuLuAI   (src/gpt-service/lulu.py, lulu_routes.py): keyword-task    *)
(*     sessions, served by synchronous routes, i.e. by worker threads that *)
(*     interleave between any two accesses to the shared object;           *)
(*   - MyoMyoAI (src/gpt-service/myomyo.py, myomyo_routes.py): per-game    *)
(*     conversation histories, served by coroutines of one event loop,     *)
(*     i.e. interleaved only at the await of the completion call.          *)
(***************************************************************************)
EXTENDS Integers, Sequences, FiniteSets, TLC

VARIABLES
    active_games,          \* LuLuAI.active_games: game_id -> None | task
    global_used_keywords,  \* LuLuAI.global_used_keywords: list of keywords
    th,                    \* per request thread of the LuLu routes: position and locals
    lastGen,               \* history: game_id -> task handed out by the last completed generate
    game_histories,        \* MyoMyoAI.game_histories: game_id -> list of messages
    co,                    \* per coroutine of the MyoMyo routes: position and locals
    nOk,                   \* history: game_id -> healthy generate/append calls completed since the seed
    lock,                  \* MyoMyoAI._lock: "free" or the coroutine that holds it
    addArg,                \* the keyword last passed to _update_global_keywords (0: none yet)
    ringLog                \* history: the keywords _update_global_keywords has appended, in order

ringVars == <<addArg, ringLog>>
luluVars == <<active_games, global_used_keywords, th, lastGen, ringVars>>
myoVars == <<game_histories, co, nOk, lock>>
vars == <<active_games, global_used_keywords, th, lastGen, game_histories, co, nOk, lock,
          addArg, ringLog>>

----------------------------------------------------------------------------
(* Bounds of the model                                                     *)

\* ids random.randint(1000, 9999) may draw, cut down to two
GameIds == {"1001", "1002"}
\* request threads of the LuLu routes
Threads == {"t1", "t2"}
\* the single request thread of the sequential specification
SeqThreads == {"t1"}
\* keywords the upstream may answer with
Keywords == {"sun", "sea"}
\* the one keyword of the sequential specification
SeqKeywords == {"sun"}
\* successful generations are cut off once the keyword list is this long
MaxRing == 2
\* the same cut-off in the sequential specification: beyond the limit of 30
SeqMaxRing == 31

\* the limit _update_global_keywords enforces
MaxKeywords == 30

\* coroutines of the MyoMyo routes in flight at once
Coros == {"c1", "c2"}
\* the single coroutine of the combined specification
SeqCoros == {"c1"}
\* the reply the upstream gives when it answers
Replies == {"reply"}
\* generate/append calls are cut off once a history is this long
MaxHistory == 3
\* the distinct keywords passed to _update_global_keywords
MaxAdds == 32

----------------------------------------------------------------------------
(* Values                                                                  *)

\* Python's None, as a record so that it compares with tasks
None == [none |-> TRUE]

Range(s) == {s[i] : i \in 1..Len(s)}

NoDuplicates(s) == \A i, j \in 1..Len(s) : i # j => s[i] # s[j]

\* errors a LuLu request can end with
NotFound == "ValueError: Invalid game ID"
InvalidState == "ValueError: No task found for this game."
KeyError == "KeyError"

FallbackSituation == "fallback situation"
FallbackFeedback == "fallback feedback"

\* the task returned when generation fails
FallbackTask(game_id) ==
    [keyword |-> "달", situation |-> FallbackSituation, game_id |-> game_id]

\* the evaluation returned when evaluation fails
FallbackEvaluation(game_id, current_task) ==
    [score |-> 35, feedback |-> FallbackFeedback, task |-> current_task, game_id |-> game_id]

\* the ways a completion call fails: an API error, a time-out, a rate limit,
\* or an answer that cannot be used (text json.loads rejects, JSON that is not
\* an object, no text at all)
UpstreamFailures ==
    {[failure |-> k] : k \in {"error", "timeout", "rate limit", "unparsable"}}

\* an except clause that caught parse errors only
CaughtParseErrorsOnly(failure) == failure.failure = "unparsable"

\* `except Exception` around the completion calls: every failure is caught
Caught(failure) == TRUE

\* the error a request would end with if a failure were not caught
Propagated == "UpstreamFailure"

\* what json.loads can make of a healthy task completion: an object with both
\* keys, or with one of the two missing
TaskOutputs(K) ==
    [keyword : K, situation : {"clue"}] \cup [keyword : K] \cup [situation : {"clue"}]

\* what json.loads can make of a healthy evaluation completion
EvalOutputs ==
    [score : {20, 80}, feedback : {"fb"}] \cup [feedback : {"fb"}]

\* up is history: how the completion call of the request went ("-": none made);
\* flushed is what flush_game_data returned to the route ("-": not called)
Idle == [pc |-> "idle", op |-> "-", gid |-> "-", task |-> None, resp |-> None, up |-> "-",
         flushed |-> "-"]

\* no request of the LuLu routes, resp. of the MyoMyo routes, is being served;
\* with `alone` set, a request is admitted only when the other service is quiet
LuluQuiet == \A t \in Threads : th[t].pc = "idle"
MyoQuiet == \A c \in Coros : co[c].pc = "idle"

Returned(t, kind, body) ==
    [th EXCEPT ![t].pc = "ret", ![t].resp = [kind |-> kind, body |-> body]]

----------------------------------------------------------------------------
(* LuLuAI                                                                  *)

\* route start_game: enters create_game
start_game(t, alone) ==
    /\ alone => MyoQuiet
    /\ th[t].pc = "idle"
    /\ th' = [th EXCEPT ![t].pc = "create_loop", ![t].op = "create"]
    /\ UNCHANGED <<active_games, global_used_keywords, lastGen, myoVars, ringVars>>

\* create_game, one turn of the loop: draw an id, leave the loop if it is free
create_game_draw(t) ==
    /\ th[t].pc = "create_loop"
    /\ \E game_id \in GameIds :
         IF game_id \notin DOMAIN active_games
         THEN th' = [th EXCEPT ![t].pc = "create_insert", ![t].gid = game_id]
         ELSE UNCHANGED th
    /\ UNCHANGED <<active_games, global_used_keywords, lastGen, myoVars, ringVars>>

\* create_game, after the loop: register the id with no task and return it
create_game_insert(t) ==
    /\ th[t].pc = "create_insert"
    /\ active_games' = (th[t].gid :> None) @@ active_games
    /\ lastGen' = [lastGen EXCEPT ![th[t].gid] = None]
    /\ th' = Returned(t, "ok", [game_id |-> th[t].gid])
    /\ UNCHANGED <<global_used_keywords, myoVars, ringVars>>

\* an _update_global_keywords that dropped the newest entry when full
UpdateGlobalKeywordsDropNewest(keywords, new_keyword) ==
    IF new_keyword \in Range(keywords)
    THEN keywords
    ELSE LET appended == Append(keywords, new_keyword)
         IN IF Len(appended) > MaxKeywords THEN SubSeq(appended, 1, MaxKeywords)
            ELSE appended

\* the keyword list after _update_global_keywords(new_keyword)
UpdateGlobalKeywords(keywords, new_keyword) ==
    IF new_keyword \in Range(keywords)
    THEN keywords
    ELSE LET appended == Append(keywords, new_keyword)
         IN IF Len(appended) > MaxKeywords THEN Tail(appended) ELSE appended

\* a call of _update_global_keywords on the keyword list.  Keywords are
\* numbered in the order of their first use; a call passes the next unused
\* keyword or one of the last MaxKeywords used
update_global_keywords(new_keyword) ==
    /\ new_keyword <= Len(ringLog) + 1
    /\ new_keyword > Len(ringLog) - MaxKeywords
    /\ global_used_keywords' = UpdateGlobalKeywords(global_used_keywords, new_keyword)
    /\ addArg' = new_keyword
    /\ ringLog' = IF new_keyword \in Range(ringLog) THEN ringLog
                  ELSE Append(ringLog, new_keyword)
    /\ UNCHANGED <<active_games, th, lastGen, myoVars>>

\* a generate_drawing_task that kept only the newest keyword
RecordKeywordOnly(keywords, new_keyword) == << new_keyword >>

\* the keyword list after generate_drawing_task has recorded a keyword
RecordKeyword(keywords, new_keyword) == Append(keywords, new_keyword)

\* a route that withheld the keyword
GenerateTaskResponseWithoutKeyword(task) ==
    [k \in DOMAIN task \ {"keyword"} |-> task[k]]

\* what the route generate_task answers with for the task the service returned
GenerateTaskResponse(task) == task

\* route generate_task -> generate_drawing_task, the membership test
generate_task(t, game_id, alone) ==
    /\ alone => MyoQuiet
    /\ th[t].pc = "idle"
    /\ IF game_id \notin DOMAIN active_games
       THEN th' = [Returned(t, NotFound, None) EXCEPT ![t].op = "generate", ![t].gid = game_id]
       ELSE th' = [th EXCEPT ![t].pc = "gen_call", ![t].op = "generate", ![t].gid = game_id]
    /\ UNCHANGED <<active_games, global_used_keywords, lastGen, myoVars, ringVars>>

\* generate_drawing_task: the completion call answers with usable JSON; the
\* keyword is recorded
generate_task_parsed(t, K, cap) ==
    /\ th[t].pc = "gen_call"
    /\ Len(global_used_keywords) < cap
    /\ \E out \in TaskOutputs(K) :
         /\ "keyword" \in DOMAIN out
         /\ global_used_keywords' = RecordKeyword(global_used_keywords, out.keyword)
         /\ th' = [th EXCEPT ![t].pc = "gen_store", ![t].up = "ok",
                             ![t].task = ("game_id" :> th[t].gid) @@ out]
    /\ UNCHANGED <<active_games, lastGen, myoVars, ringVars>>

\* generate_drawing_task: the task is stored for the id and returned
generate_task_store(t) ==
    /\ th[t].pc = "gen_store"
    /\ active_games' = (th[t].gid :> th[t].task) @@ active_games
    /\ lastGen' = [lastGen EXCEPT ![th[t].gid] = th[t].task]
    /\ th' = Returned(t, "ok", GenerateTaskResponse(th[t].task))
    /\ UNCHANGED <<global_used_keywords, myoVars, ringVars>>

\* an except branch that stored the fallback task
StoreFallbackTask(games, game_id) == (game_id :> FallbackTask(game_id)) @@ games

\* active_games after the except branch of generate_drawing_task: it builds
\* and returns the fallback task and stores nothing
GamesAfterFallback(games, game_id) == games

\* generate_drawing_task: the call fails, or its JSON has no keyword; the
\* fallback task is returned
generate_task_fallback(t, K) ==
    /\ th[t].pc = "gen_call"
    /\ \E out \in TaskOutputs(K) \cup UpstreamFailures :
         /\ "keyword" \notin DOMAIN out
         /\ IF out \in UpstreamFailures /\ ~Caught(out)
            THEN /\ th' = [Returned(t, Propagated, None) EXCEPT ![t].up = "fail"]
                 /\ UNCHANGED lastGen
            ELSE /\ th' = [Returned(t, "ok", GenerateTaskResponse(FallbackTask(th[t].gid)))
                             EXCEPT ![t].up = IF out \in UpstreamFailures THEN "fail" ELSE "ok"]
                 /\ lastGen' = [lastGen EXCEPT ![th[t].gid] = FallbackTask(th[t].gid)]
    /\ active_games' = GamesAfterFallback(active_games, th[t].gid)
    /\ UNCHANGED <<global_used_keywords, myoVars, ringVars>>

\* a route evaluate_task that flushed the session although evaluate_drawing
\* had raised
FlushAfterRaise(games, game_id) == [g \in DOMAIN games \ {game_id} |-> games[g]]

\* active_games after evaluate_drawing has raised: the exception leaves the
\* route evaluate_task before its call of flush_game_data
GamesAfterRaise(games, game_id) == games

\* route evaluate_task -> evaluate_drawing, the membership test
evaluate_task(t, game_id, alone) ==
    /\ alone => MyoQuiet
    /\ th[t].pc = "idle"
    /\ IF game_id \notin DOMAIN active_games
       THEN /\ th' = [Returned(t, NotFound, None) EXCEPT ![t].op = "evaluate",
                                                        ![t].gid = game_id]
            /\ active_games' = GamesAfterRaise(active_games, game_id)
       ELSE /\ th' = [th EXCEPT ![t].pc = "eval_read", ![t].op = "evaluate",
                                ![t].gid = game_id]
            /\ UNCHANGED active_games
    /\ UNCHANGED <<global_used_keywords, lastGen, myoVars, ringVars>>

\* an evaluate_drawing that took any stored value for a task
NoTaskNever(current_task) == FALSE

\* evaluate_drawing's test for a session that has no task yet
NoTask(current_task) == current_task = None

\* evaluate_drawing: read the current task and build the prompts from it
evaluate_read(t) ==
    /\ th[t].pc = "eval_read"
    /\ IF th[t].gid \notin DOMAIN active_games
       THEN th' = Returned(t, KeyError, None)
       ELSE LET current_task == active_games[th[t].gid]
            IN IF NoTask(current_task)
               THEN th' = Returned(t, InvalidState, None)
               ELSE IF {"keyword", "situation"} \subseteq DOMAIN current_task
                    THEN th' = [th EXCEPT ![t].pc = "eval_call", ![t].task = current_task]
                    ELSE th' = Returned(t, KeyError, None)
    /\ active_games' = IF th'[t].pc = "ret"
                       THEN GamesAfterRaise(active_games, th[t].gid)
                       ELSE active_games
    /\ UNCHANGED <<global_used_keywords, lastGen, myoVars, ringVars>>

\* evaluate_drawing: the completion call answers or fails; the evaluation goes
\* back to the route
evaluate_call(t) ==
    /\ th[t].pc = "eval_call"
    /\ \E out \in EvalOutputs \cup UpstreamFailures :
         LET evaluation ==
               IF out \in UpstreamFailures
               THEN FallbackEvaluation(th[t].gid, th[t].task)
               ELSE ("task" :> th[t].task) @@ ("game_id" :> th[t].gid) @@ out
         IN IF out \in UpstreamFailures /\ ~Caught(out)
            THEN th' = [Returned(t, Propagated, None) EXCEPT ![t].up = "fail"]
            ELSE th' = [th EXCEPT ![t].pc = "eval_flush",
                                  ![t].up = IF out \in UpstreamFailures THEN "fail" ELSE "ok",
                                  ![t].resp = [kind |-> "ok", body |-> evaluation]]
    /\ UNCHANGED <<active_games, global_used_keywords, lastGen, myoVars, ringVars>>

\* what flush_game_data returns: it has no return statement
FlushResult(existed) == "None"

\* flush_game_data, called by the route evaluate_task: the membership test
flush_check(t) ==
    /\ th[t].pc = "eval_flush"
    /\ IF th[t].gid \in DOMAIN active_games
       THEN th' = [th EXCEPT ![t].pc = "flush_del"]
       ELSE th' = [th EXCEPT ![t].pc = "ret", ![t].flushed = FlushResult(FALSE)]
    /\ UNCHANGED <<active_games, global_used_keywords, lastGen, myoVars, ringVars>>

\* flush_game_data: the del statement; the route then returns the evaluation
flush_del(t) ==
    /\ th[t].pc = "flush_del"
    /\ IF th[t].gid \in DOMAIN active_games
       THEN /\ active_games' = [g \in DOMAIN active_games \ {th[t].gid} |-> active_games[g]]
            /\ th' = [th EXCEPT ![t].pc = "ret", ![t].flushed = FlushResult(TRUE)]
       ELSE /\ UNCHANGED active_games
            /\ th' = Returned(t, KeyError, None)
    /\ UNCHANGED <<global_used_keywords, lastGen, myoVars, ringVars>>

\* the response has been sent; the thread serves the next request
respond(t) ==
    /\ th[t].pc = "ret"
    /\ th' = [th EXCEPT ![t] = Idle]
    /\ UNCHANGED <<active_games, global_used_keywords, lastGen, myoVars, ringVars>>

LuluStep(t, K, cap, alone) ==
    \/ start_game(t, alone)
    \/ create_game_draw(t)
    \/ create_game_insert(t)
    \/ \E game_id \in GameIds : generate_task(t, game_id, alone)
    \/ generate_task_parsed(t, K, cap)
    \/ generate_task_store(t)
    \/ generate_task_fallback(t, K)
    \/ \E game_id \in GameIds : evaluate_task(t, game_id, alone)
    \/ evaluate_read(t)
    \/ evaluate_call(t)
    \/ flush_check(t)
    \/ flush_del(t)
    \/ respond(t)

----------------------------------------------------------------------------
(* MyoMyoAI                                                                *)

\* the persona-turn calls of the routes
Kinds == {"game_start", "round_start", "round_end", "guess_start", "guess",
          "react_to_guess", "game_end"}
\* the calls the conversation specification draws from
FewKinds == {"guess", "game_end"}

Apology == "apology"

\* _get_init_system_prompt
InitSystemPrompt == << [role |-> "system", content |-> "persona"] >>

\* the prompt each persona-turn method builds (its parameters left out): a
\* fixed text per kind of call
PersonaPrompt(kind) == kind

\* cleaned is what cleanup_game returned to the route ("-": not called)
CoIdle == [pc |-> "idle", kind |-> "-", gid |-> "-", messages |-> << >>, resp |-> "-",
           up |-> "-", cleaned |-> "-"]

\* an _ensure_game_exists that seeded nothing
EnsureGameExistsNoSeed(histories, game_id) == histories

\* game_histories after _ensure_game_exists(game_id)
EnsureGameExists(histories, game_id) ==
    IF game_id \notin DOMAIN histories
    THEN (game_id :> InitSystemPrompt) @@ histories
    ELSE histories

\* a generate_response that awaited the completion call inside the `with` block
LockHeldDuringCall(c) == c

\* the holder of _lock while generate_response awaits the completion call: the
\* `with` block around the copy of the history has been left
LockDuringCall(c) == "free"

\* a cleanup_game that dropped every history
CleanupGameAll(histories, game_id) == << >>

\* a cleanup_game that emptied the history instead of deleting it
CleanupGameClear(histories, game_id) ==
    [g \in DOMAIN histories |-> IF g = game_id THEN << >> ELSE histories[g]]

\* game_histories after cleanup_game(game_id)
CleanupGame(histories, game_id) ==
    [g \in DOMAIN histories \ {game_id} |-> histories[g]]

\* the request's own copy of the turn list: the history read plus the prompt
RequestMessages(history, role, prompt) ==
    Append(history, [role |-> role, content |-> prompt])

\* a generate_response that persisted the prompt too
PersistPromptAndReply(history, role, prompt, ai_response) ==
    Append(Append(history, [role |-> role, content |-> prompt]),
           [role |-> "assistant", content |-> ai_response])

\* a generate_response that persisted the prompt in place of the reply
PersistPromptOnly(history, role, prompt, ai_response) ==
    Append(history, [role |-> role, content |-> prompt])

\* the history after generate_response has persisted its result
PersistReply(history, role, prompt, ai_response) ==
    Append(history, [role |-> "assistant", content |-> ai_response])

\* what cleanup_game(game_id) returns
CleanupResult(histories, game_id) ==
    IF game_id \in DOMAIN histories THEN "True" ELSE "False"

\* an end_game that returned the message without cleaning up
AfterCallNoCleanup(histories, kind, game_id) == histories

\* what the route does after the persona call has returned: end_game cleans up
AfterCall(histories, kind, game_id) ==
    IF kind = "game_end" THEN CleanupGame(histories, game_id) ELSE histories

\* what the route got from cleanup_game
AfterCallResult(histories, kind, game_id) ==
    IF kind = "game_end" THEN CleanupResult(histories, game_id) ELSE "-"

\* a generate_response that returned the reply although the history was gone
ReplyDespiteNoHistory(ai_response) == ai_response

\* what generate_response returns when the history is gone on its return from
\* the call: the append raises KeyError inside the try
ReplyWithoutHistory(ai_response) == Apology

\* a persona-turn route -> generate_response, up to the await of the completion
\* call: ensure the history, copy it, add the prompt to the copy
generate_response_begin(c, game_id, kind, alone) ==
    /\ alone => LuluQuiet
    /\ co[c].pc = "idle"
    /\ lock = "free"
    /\ lock' = LockDuringCall(c)
    /\ LET ensured == EnsureGameExists(game_histories, game_id)
           history == IF game_id \in DOMAIN ensured THEN ensured[game_id] ELSE << >>
       IN /\ game_histories' = ensured
          /\ nOk' = IF game_id \in DOMAIN game_histories THEN nOk
                    ELSE [nOk EXCEPT ![game_id] = 0]
          /\ co' = [co EXCEPT ![c] = [pc |-> "await", kind |-> kind, gid |-> game_id,
                                      messages |-> RequestMessages(history, "system",
                                                                   PersonaPrompt(kind)),
                                      resp |-> "-", up |-> "-", cleaned |-> "-"]]
    /\ UNCHANGED luluVars

\* generate_response resumes with a completion: the reply is appended to the
\* shared history (KeyError, hence the apology, if the history is gone); the
\* route runs to its return
generate_response_reply(c) ==
    /\ co[c].pc = "await"
    /\ lock = "free"
    /\ UNCHANGED lock
    /\ LET game_id == co[c].gid
           prompt == co[c].messages[Len(co[c].messages)]
       IN \E ai_response \in Replies :
            IF game_id \in DOMAIN game_histories
            THEN /\ Len(game_histories[game_id]) < MaxHistory
                 /\ game_histories' =
                      AfterCall([game_histories EXCEPT ![game_id] =
                                   PersistReply(@, prompt.role, prompt.content, ai_response)],
                                co[c].kind, game_id)
                 /\ nOk' = [nOk EXCEPT ![game_id] = @ + 1]
                 /\ co' = [co EXCEPT ![c].pc = "ret", ![c].resp = ai_response,
                                      ![c].up = "ok",
                                      ![c].cleaned =
                                         AfterCallResult(game_histories, co[c].kind, game_id)]
            ELSE /\ game_histories' = AfterCall(game_histories, co[c].kind, game_id)
                 /\ UNCHANGED nOk
                 /\ co' = [co EXCEPT ![c].pc = "ret",
                                      ![c].resp = ReplyWithoutHistory(ai_response),
                                      ![c].up = "ok",
                                      ![c].cleaned =
                                         AfterCallResult(game_histories, co[c].kind, game_id)]
    /\ UNCHANGED luluVars

\* generate_response resumes with an exception of the completion call: the
\* apology is returned and the route runs to its return
generate_response_error(c) ==
    /\ co[c].pc = "await"
    /\ co[c].kind = "game_end" => lock = "free"
    /\ UNCHANGED lock
    /\ \E failure \in UpstreamFailures :
         IF Caught(failure)
         THEN /\ game_histories' = AfterCall(game_histories, co[c].kind, co[c].gid)
              /\ co' = [co EXCEPT ![c].pc = "ret", ![c].resp = Apology, ![c].up = "fail",
                                   ![c].cleaned =
                                      AfterCallResult(game_histories, co[c].kind, co[c].gid)]
         ELSE /\ UNCHANGED game_histories
              /\ co' = [co EXCEPT ![c].pc = "ret", ![c].resp = Propagated, ![c].up = "fail"]
    /\ UNCHANGED <<nOk, luluVars>>

\* add_message(game_id, role, content)
add_message(game_id, role, content, alone) ==
    /\ alone => LuluQuiet
    /\ lock = "free"
    /\ UNCHANGED lock
    /\ LET ensured == EnsureGameExists(game_histories, game_id)
       IN /\ game_id \in DOMAIN ensured
          /\ Len(ensured[game_id]) < MaxHistory
          /\ game_histories' = [ensured EXCEPT ![game_id] =
                                  Append(@, [role |-> role, content |-> content])]
          /\ nOk' = [nOk EXCEPT ![game_id] =
                       IF game_id \in DOMAIN game_histories THEN @ + 1 ELSE 1]
    /\ UNCHANGED <<co, luluVars>>

\* the message has been sent; the coroutine is over
co_respond(c) ==
    /\ co[c].pc = "ret"
    /\ co' = [co EXCEPT ![c] = CoIdle]
    /\ UNCHANGED <<game_histories, nOk, lock, luluVars>>

MyoStep(c, kinds, alone) ==
    \/ \E game_id \in GameIds, kind \in kinds : generate_response_begin(c, game_id, kind, alone)
    \/ generate_response_reply(c)
    \/ generate_response_error(c)
    \/ co_respond(c)

AddMessageStep(alone) == \E game_id \in GameIds : add_message(game_id, "user", "m", alone)

----------------------------------------------------------------------------
(* Specifications                                                          *)

Init ==
    /\ active_games = << >>
    /\ global_used_keywords = << >>
    /\ th = [t \in Threads |-> Idle]
    /\ lastGen = [g \in GameIds |-> None]
    /\ game_histories = << >>
    /\ co = [c \in Coros |-> CoIdle]
    /\ nOk = [g \in GameIds |-> 0]
    /\ lock = "free"
    /\ addArg = 0
    /\ ringLog = << >>

\* the LuLu service under concurrent requests
Next == \E t \in Threads : LuluStep(t, Keywords, MaxRing, FALSE)

Spec == Init /\ [][Next]_vars

\* the LuLu service with one request at a time
NextSeq == \E t \in SeqThreads : LuluStep(t, SeqKeywords, SeqMaxRing, FALSE)

SpecSeq == Init /\ [][NextSeq]_vars

\* the MyoMyo service under concurrent requests
NextMyo ==
    \/ \E c \in Coros : MyoStep(c, FewKinds, FALSE)
    \/ AddMessageStep(FALSE)

SpecMyo == Init /\ [][NextMyo]_vars

\* both services, a request being admitted only when no other is being served
NextAll ==
    \/ \E t \in SeqThreads : LuluStep(t, SeqKeywords, MaxRing, TRUE)
    \/ \E c \in SeqCoros : MyoStep(c, Kinds, TRUE)
    \/ AddMessageStep(TRUE)

SpecAll == Init /\ [][NextAll]_vars

\* the steps a worker thread takes by itself, once it serves a request: all
\* but the return of the completion call, which is the upstream's to give (no
\* timeout is passed to the call or to the client)
ThreadRuns(t) ==
    \/ create_game_draw(t)
    \/ create_game_insert(t)
    \/ generate_task_store(t)
    \/ evaluate_read(t)
    \/ flush_check(t)
    \/ flush_del(t)
    \/ respond(t)

\* the LuLu service with one request at a time, every thread running on
SpecLive == Init /\ [][NextSeq]_vars /\ \A t \in SeqThreads : WF_vars(ThreadRuns(t))

\* _update_global_keywords applied to the keyword list, call after call
NextRing == \E new_keyword \in 1..MaxAdds : update_global_keywords(new_keyword)

SpecRing == Init /\ [][NextRing]_vars

----------------------------------------------------------------------------
(* Claims                                                                  *)

\* a request of the given kind has just returned on thread t
ReturnedFrom(t, op) == th[t].pc = "ret" /\ th[t].op = op

\* C1: a create call never returns an id that is live (registered and not
\* flushed since) at the moment the call registers it, so the ids of live
\* sessions are pairwise distinct.
C1_CreatedIdsDistinctWhileLive ==
    [][\A t \in Threads :
         (th[t].pc = "create_insert" /\ th'[t].pc = "ret")
           => th[t].gid \notin DOMAIN active_games]_vars

\* C2: read, completion call and append of generate_response are one critical
\* section per session id: no two calls for the same id are between their read
\* and their append at once.
C2_GenerateSerializedPerSession ==
    \A c1, c2 \in Coros :
      (c1 # c2 /\ co[c1].pc = "await" /\ co[c2].pc = "await")
        => co[c1].gid # co[c2].gid

\* C3 as stated: a history has grown by two entries per healthy call completed
\* on it.
C3_TwoEntriesPerCall ==
    \A g \in DOMAIN game_histories :
      Len(game_histories[g]) = Len(InitSystemPrompt) + 2 * nOk[g]

\* C3 as amended: a history has grown by one entry per healthy generate or
\* append call completed on it since it was seeded, and every entry is a
\* complete {role, content} record.
C3_OneEntryPerCall ==
    \A g \in DOMAIN game_histories :
      /\ Len(game_histories[g]) = Len(InitSystemPrompt) + nOk[g]
      /\ \A i \in 1..Len(game_histories[g]) :
           DOMAIN game_histories[g][i] = {"role", "content"}

\* two overlapping generate calls on one id have both returned the upstream's reply
C3_Witness ==
    \E g \in DOMAIN game_histories :
      /\ nOk[g] = 2
      /\ \A c \in Coros :
           /\ co[c].pc = "ret" /\ co[c].gid = g /\ co[c].resp \in Replies
           /\ Len(co[c].messages) = Len(InitSystemPrompt) + 1

\* C4: the keyword list never holds more than 30 keywords.
C4_RingAtMostThirty == Len(global_used_keywords) <= MaxKeywords

\* C5: the keyword list never holds the same keyword twice.
C5_RingHasNoDuplicates == NoDuplicates(global_used_keywords)

\* C6: with requests served one at a time, an evaluate that returns after the
\* session's last generate handed out the fallback task either succeeded on
\* that task (keyword "달"; score 35 when the upstream fails again) and has
\* flushed the session, or is a later one that failed NotFound.
C6_EvaluateAfterFallbackTask ==
    \A t \in SeqThreads :
      (ReturnedFrom(t, "evaluate") /\ lastGen[th[t].gid] = FallbackTask(th[t].gid))
        => \/ th[t].resp.kind = NotFound
           \/ /\ th[t].resp.kind = "ok"
              /\ th[t].resp.body.task = FallbackTask(th[t].gid)
              /\ th[t].resp.body.score \in {35, 20, 80}
              /\ th[t].gid \notin DOMAIN active_games

\* C7: the task evaluate reads for a live session is the task the most recent
\* completed generate of that session returned (no task if there was none).
C7_EvaluateReadsLatestTask ==
    [][\A t \in Threads :
         (th[t].pc = "eval_read" /\ th'[t].pc # "eval_read"
            /\ th[t].gid \in DOMAIN active_games)
           => active_games[th[t].gid] = lastGen[th[t].gid]]_vars

\* C8: when generateTask returns a task, the task's keyword is in the keyword list.
C8_KeywordRecordedBeforeResponse ==
    \A t \in Threads :
      (ReturnedFrom(t, "generate") /\ th[t].resp.kind = "ok")
        => th[t].resp.body.keyword \in Range(global_used_keywords)

\* C9 as stated: the response of generateTask has no keyword field: it carries
\* the session id and the situation only.
C9_KeywordNotInResponse ==
    \A t \in Threads :
      (ReturnedFrom(t, "generate") /\ th[t].resp.kind = "ok")
        => DOMAIN th[t].resp.body \subseteq {"game_id", "situation"}

\* C9 as amended: the response of generateTask is the task itself: it carries
\* the session id and the task's keyword, for upstream tasks (whose keyword is
\* then the one stored, unless another request has replaced the task) and for
\* the fallback task alike.
C9_KeywordInResponse ==
    \A t \in Threads :
      (ReturnedFrom(t, "generate") /\ th[t].resp.kind = "ok")
        => /\ {"game_id", "keyword"} \subseteq DOMAIN th[t].resp.body
           /\ th[t].resp.body.game_id = th[t].gid
           /\ \/ th[t].resp.body = FallbackTask(th[t].gid)
              \/ /\ th[t].resp.body = th[t].task
                 /\ th[t].resp.body.keyword \in Keywords

\* generateTask has returned a task whose keyword the upstream chose
C9_Witness ==
    \E t \in Threads :
      /\ ReturnedFrom(t, "generate") /\ th[t].resp.kind = "ok"
      /\ th[t].resp.body.keyword \in Keywords
      /\ active_games[th[t].gid].keyword = th[t].resp.body.keyword

\* a generateTask or evaluate request arrives for an id with no live session:
\* it fails NotFound and leaves the registry and the keyword list alone
UnknownIdFailsInLulu ==
    \A t \in Threads :
      (th[t].pc = "idle" /\ th'[t].op \in {"generate", "evaluate"}
         /\ th'[t].gid \notin DOMAIN active_games)
        => /\ th'[t].pc = "ret" /\ th'[t].resp.kind = NotFound
           /\ UNCHANGED <<active_games, global_used_keywords>>

\* C10 as stated: every call with an id that has no live session or history
\* fails and creates no state for the id, the persona-turn calls included.
C10_UnknownIdFailsEverywhere ==
    [][/\ UnknownIdFailsInLulu
       /\ \A c \in Coros :
            (co[c].pc = "idle" /\ co'[c].pc # "idle"
               /\ co'[c].gid \notin DOMAIN game_histories)
              => /\ co'[c].pc = "ret"
                 /\ game_histories' = game_histories]_vars

\* C10 as amended: generateTask and evaluate with an id that has no live
\* session fail NotFound and create no state; a persona-turn call (of any of
\* the seven kinds) with an id that has no history does not fail: it seeds a
\* history for the id, the persona system entry alone, and goes on to the
\* completion call with that entry and its prompt.
C10_UnknownIdFailsInLuluOnly ==
    [][/\ UnknownIdFailsInLulu
       /\ \A c \in Coros :
            (co[c].pc = "idle" /\ co'[c].pc # "idle"
               /\ co'[c].gid \notin DOMAIN game_histories)
              => /\ co'[c].pc = "await"
                 /\ co'[c].gid \in DOMAIN game_histories'
                 /\ game_histories'[co'[c].gid] = InitSystemPrompt
                 /\ co'[c].messages =
                      Append(InitSystemPrompt,
                             [role |-> "system", content |-> PersonaPrompt(co'[c].kind)])
                 /\ \A g \in DOMAIN game_histories :
                      game_histories'[g] = game_histories[g]]_vars

\* a persona-turn call, made with an id that is no live keyword-task session
\* either, awaits the upstream with the seed and its prompt, on a history that
\* holds the seed alone
C10_Witness ==
    \E c \in Coros :
      /\ co[c].pc = "await"
      /\ co[c].gid \notin DOMAIN active_games
      /\ game_histories[co[c].gid] = InitSystemPrompt
      /\ co[c].messages[1] = InitSystemPrompt[1]
      /\ Len(co[c].messages) = 2

\* C11: evaluate on a live session that holds no task ends with the error "No
\* task found for this game." in the very step that reads the session: the
\* request never reaches the completion call, and no state is written
C11_EvaluateWithoutTaskIsInvalidState ==
    [][\A t \in Threads :
          ( /\ th[t].pc = "eval_read"
            /\ th'[t] # th[t]
            /\ th[t].gid \in DOMAIN active_games
            /\ active_games[th[t].gid] = None )
          => /\ th'[t].pc = "ret"
             /\ th'[t].resp = [kind |-> InvalidState, body |-> None]
             /\ active_games' = active_games
             /\ global_used_keywords' = global_used_keywords]_vars

\* an evaluate request has been refused for want of a task, its session still
\* being live and without a task
C11_Witness ==
    \E t \in Threads :
        /\ ReturnedFrom(t, "evaluate")
        /\ th[t].resp.kind = InvalidState
        /\ th[t].gid \in DOMAIN active_games
        /\ active_games[th[t].gid] = None

\* C12: a failure of the completion call never reaches the caller.  A generate
\* request whose call failed returns the fallback task; evaluate_drawing hands
\* the fallback evaluation (score 35) for the task it read back to its route,
\* which returns it; a persona-turn request returns the apology.  Each is a
\* normal result.
C12_UpstreamFailureNeverPropagated ==
    /\ \A t \in Threads :
          th[t].up = "fail" =>
            /\ th[t].pc \in {"eval_flush", "flush_del", "ret"}
            /\ th[t].resp.kind = "ok"
            /\ th[t].op = "generate" => th[t].resp.body = FallbackTask(th[t].gid)
            /\ th[t].op = "evaluate" =>
                  /\ th[t].task # None
                  /\ th[t].resp.body = FallbackEvaluation(th[t].gid, th[t].task)
    /\ \A c \in Coros :
          co[c].up = "fail" => co[c].pc = "ret" /\ co[c].resp = Apology

\* an evaluate request whose completion call failed has returned the fallback
\* evaluation
C12_Witness ==
    \E t \in Threads :
        /\ ReturnedFrom(t, "evaluate")
        /\ th[t].up = "fail"
        /\ th[t].resp.kind = "ok"
        /\ th[t].resp.body.score = 35

\* C13: create terminates in every state: a create call that is in its loop
\* can always leave it with its next turn, either with a free id or, when
\* every id is live, with a failure.
C13_CreateCanLeaveItsLoop ==
    \A t \in Threads :
        th[t].pc = "create_loop" =>
            ENABLED (create_game_draw(t) /\ th'[t].pc # "create_loop")

\* the lifecycle state of a keyword-task session
Phase(games, g) ==
    IF g \notin DOMAIN games THEN "removed"
    ELSE IF games[g] = None THEN "CREATED" ELSE "TASK_ISSUED"

\* C14: a session changes its lifecycle state only along removed -> CREATED
\* (by create_game registering the id), CREATED -> TASK_ISSUED, and
\* TASK_ISSUED -> removed (by the flush of an evaluate request that has its
\* result).  So a flushed id stays unknown until create_game issues it again,
\* and no step takes a session from TASK_ISSUED back to CREATED.
C14_SessionLifecycle ==
    [][\A g \in GameIds :
          LET before == Phase(active_games, g)
              after == Phase(active_games', g)
          IN before # after =>
               \/ /\ before = "removed"
                  /\ after = "CREATED"
                  /\ \E t \in Threads :
                        th[t].pc = "create_insert" /\ th[t].gid = g /\ th'[t].pc = "ret"
               \/ before = "CREATED" /\ after = "TASK_ISSUED"
               \/ /\ before = "TASK_ISSUED"
                  /\ after = "removed"
                  /\ \E t \in Threads :
                        /\ th[t].pc = "flush_del" /\ th[t].gid = g /\ th'[t].pc = "ret"
                        /\ th[t].resp.kind = "ok"]_vars

\* C15: deleting is total and reports what it did.  A flush_game_data or
\* cleanup_game call that a route makes returns True when an entry for the id
\* existed and False otherwise, never raises, and leaves exactly the other
\* entries; so a second call changes nothing and returns False.
C15_DeleteReportsWhetherItRemoved ==
    [][/\ \A t \in Threads :
            (th[t].pc \in {"eval_flush", "flush_del"} /\ th'[t].pc = "ret") =>
               /\ th'[t].resp.kind = "ok"
               /\ th'[t].flushed =
                     IF th[t].gid \in DOMAIN active_games THEN "True" ELSE "False"
               /\ active_games' =
                     [g \in DOMAIN active_games \ {th[t].gid} |-> active_games[g]]
       /\ \A c \in Coros :
            (co[c].pc = "await" /\ co[c].kind = "game_end" /\ co'[c].pc = "ret") =>
               /\ co'[c].cleaned =
                     IF co[c].gid \in DOMAIN game_histories THEN "True" ELSE "False"
               /\ game_histories' =
                     [g \in DOMAIN game_histories \ {co[c].gid} |-> game_histories[g]]]_vars

\* C16: every conversation history that exists is non-empty, its first entry
\* is the seeded persona entry (role system), and no later entry is the seed
\* again.
C16_HistoryBeginsWithOneSeed ==
    \A g \in DOMAIN game_histories :
        /\ Len(game_histories[g]) >= 1
        /\ game_histories[g][1] = InitSystemPrompt[1]
        /\ game_histories[g][1].role = "system"
        /\ \A i \in 2..Len(game_histories[g]) : game_histories[g][i] # InitSystemPrompt[1]

\* a history that was cleaned up by an end_game request exists again, seeded
\* anew and with a reply persisted after the seed
C16_Witness ==
    \E c \in Coros :
        /\ co[c].pc = "ret"
        /\ co[c].cleaned = "True"
        /\ co[c].gid \in DOMAIN game_histories
        /\ Len(game_histories[co[c].gid]) >= 2
        /\ game_histories[co[c].gid][2].role = "assistant"

\* C17: _update_global_keywords(new_keyword) leaves the list as it is when the
\* keyword is present; otherwise it puts the keyword at the end and, if the
\* list would then be longer than 30, drops the entry at index 0.  So the list
\* never holds a keyword twice, and once 31 or more distinct keywords have
\* been passed it is exactly the last 30 of them, in the order they came.
C17_RingAdd ==
    [][LET ring == global_used_keywords
           k == addArg'
           n == Len(ringLog')
       IN /\ k \in Range(ring) => global_used_keywords' = ring
          /\ k \notin Range(ring) =>
                /\ Len(global_used_keywords') = IF Len(ring) < MaxKeywords
                                                 THEN Len(ring) + 1 ELSE MaxKeywords
                /\ global_used_keywords'[Len(global_used_keywords')] = k
                /\ SubSeq(global_used_keywords', 1, Len(global_used_keywords') - 1) =
                     IF Len(ring) < MaxKeywords THEN ring ELSE Tail(ring)
          /\ NoDuplicates(global_used_keywords')
          /\ n >= MaxKeywords + 1 =>
                global_used_keywords' = SubSeq(ringLog', n - MaxKeywords + 1, n)]_vars

\* 32 distinct keywords have been passed, the two oldest are gone, and the last
\* call passed a keyword that was present
C17_Witness ==
    /\ Len(ringLog) = 32
    /\ Len(global_used_keywords) = MaxKeywords
    /\ global_used_keywords[1] = 3
    /\ addArg = 5

\* C18: when an end_game request returns, no conversation history exists for
\* its id, whether the completion call answered or failed.
C18_EndGameLeavesNoHistory ==
    [][\A c \in Coros :
          (co[c].pc = "await" /\ co[c].kind = "game_end" /\ co'[c].pc = "ret")
          => co[c].gid \notin DOMAIN game_histories']_vars

\* an end_game request whose completion call failed has returned the apology,
\* having removed the history of its id
C18_Witness ==
    \E c \in Coros :
        /\ co[c].pc = "ret"
        /\ co[c].kind = "game_end"
        /\ co[c].up = "fail"
        /\ co[c].cleaned = "True"
        /\ co[c].gid \notin DOMAIN game_histories

\* C19: no completion call is in flight while its caller holds the lock: the
\* lock is free whenever a request awaits its call.  Hence, while a call for
\* one session is pending, a request for another session can begin, a request
\* awaiting its own call for another session can resume, and add_message for
\* another session can run.
C19_NoCallUnderLock ==
    \A c \in Coros :
        co[c].pc = "await" =>
            /\ lock # c
            /\ lock = "free"
            /\ \A d \in Coros \ {c}, g \in GameIds \ {co[c].gid} :
                  /\ co[d].pc = "idle" =>
                        \A kind \in FewKinds : ENABLED generate_response_begin(d, g, kind, FALSE)
                  /\ (co[d].pc = "await" /\ co[d].gid = g) =>
                        ENABLED generate_response_error(d)
                  /\ (g \notin DOMAIN game_histories \/ Len(game_histories[g]) < MaxHistory) =>
                        ENABLED add_message(g, "user", "m", FALSE)

\* two requests for different sessions await their calls at once
C19_Witness ==
    \E c, d \in Coros :
        /\ co[c].pc = "await"
        /\ co[d].pc = "await"
        /\ co[c].gid # co[d].gid
        /\ lock = "free"

\* C20: the registry gains an entry for an id only through create_game: an id
\* that is not registered becomes registered only in the step in which a
\* create call registers it.  A generate whose completion call was in flight
\* when its session was flushed therefore writes no entry.
C20_EntriesOnlyThroughCreate ==
    [][\A g \in GameIds :
          (g \notin DOMAIN active_games /\ g \in DOMAIN active_games') =>
             \E t \in Threads :
                 /\ th[t].pc = "create_insert"
                 /\ th[t].op = "create"
                 /\ th[t].gid = g
                 /\ th'[t].pc = "ret"
                 /\ active_games'[g] = None]_vars

\* C21: only complete output of the upstream is accepted: every stored task
\* has both a keyword and a situation, and every evaluation handed back by
\* evaluate_drawing has an integer score in 0..100 and a feedback text.
C21_OnlyCompleteOutputAccepted ==
    /\ \A g \in DOMAIN active_games :
          active_games[g] # None => {"keyword", "situation"} \subseteq DOMAIN active_games[g]
    /\ \A t \in Threads :
          ( /\ th[t].op = "evaluate"
            /\ th[t].pc \in {"eval_flush", "flush_del", "ret"}
            /\ th[t].resp.kind = "ok" )
          => /\ {"score", "feedback"} \subseteq DOMAIN th[t].resp.body
             /\ th[t].resp.body.score \in 0..100

C23_OnlyReplyPersisted ==
    [][/\ \A g \in DOMAIN game_histories' :
            \A i \in 2..Len(game_histories'[g]) :
                \/ /\ game_histories'[g][i].role = "assistant"
                   /\ game_histories'[g][i].content \in Replies
                \/ game_histories'[g][i] = [role |-> "user", content |-> "m"]
       /\ \A c \in Coros :
            ( /\ co[c].pc = "await"
              /\ co'[c].pc = "ret"
              /\ co'[c].resp \in Replies
              /\ co[c].kind # "game_end" )
            => /\ co[c].gid \in DOMAIN game_histories
               /\ game_histories' =
                     [game_histories EXCEPT ![co[c].gid] =
                        Append(@, [role |-> "assistant", content |-> co'[c].resp])]]_vars

\* a request has returned the reply of the upstream; the reply is the last
\* entry of the shared history, and the prompt the request sent is not in it
C23_Witness ==
    \E c \in Coros :
        /\ co[c].pc = "ret"
        /\ co[c].resp \in Replies
        /\ co[c].gid \in DOMAIN game_histories
        /\ LET h == game_histories[co[c].gid]
               prompt == co[c].messages[Len(co[c].messages)]
           IN /\ Len(h) >= 2
              /\ h[Len(h)] = [role |-> "assistant", content |-> co[c].resp]
              /\ prompt.role = "system"
              /\ prompt \notin Range(h)

\* the entry of id g is the same in both mappings (or absent from both)
SameEntry(old, new, g) ==
    /\ g \in DOMAIN old <=> g \in DOMAIN new
    /\ g \in DOMAIN old => old[g] = new[g]

\* C24: sessions are isolated.  A step of a request on one id, whether it
\* succeeds, fails or falls back, leaves the registry entry and the
\* conversation history of every other id as they were; add_message changes
\* the history of one id only.
C24_SessionsIsolated ==
    [][/\ \A t \in Threads :
            th'[t] # th[t] =>
               /\ \A g \in GameIds \ {th[t].gid, th'[t].gid} :
                     SameEntry(active_games, active_games', g)
               /\ game_histories' = game_histories
       /\ \A c \in Coros :
            co'[c] # co[c] =>
               /\ \A g \in GameIds \ {co[c].gid, co'[c].gid} :
                     SameEntry(game_histories, game_histories', g)
               /\ active_games' = active_games
       /\ (co' = co /\ th' = th) =>
            \A g, h \in GameIds :
                ( /\ ~SameEntry(game_histories, game_histories', g)
                  /\ ~SameEntry(game_histories, game_histories', h) ) => g = h]_vars

\* a generate request on one session has fallen back after an upstream failure
\* while another session holds a task
C24_Witness ==
    \E t \in Threads :
        /\ ReturnedFrom(t, "generate")
        /\ th[t].up = "fail"
        /\ \E g \in DOMAIN active_games \ {th[t].gid} : active_games[g] # None

\* C25: a session holds one task, the one stored last.  The step in which a
\* generate request stores its task puts that task in place of whatever the
\* session held and returns it; an evaluate request works on the task the
\* session holds when it reads; and generating never takes a keyword off the
\* keyword list, so the keyword of the task that was replaced is still there.
C25_RegenerateReplacesTask ==
    [][\A t \in Threads :
          /\ (th[t].pc = "gen_store" /\ th'[t].pc = "ret") =>
                /\ active_games'[th[t].gid] = th[t].task
                /\ th'[t].resp.body = th[t].task
                /\ DOMAIN active_games' = DOMAIN active_games \cup {th[t].gid}
                /\ ( /\ th[t].gid \in DOMAIN active_games
                     /\ active_games[th[t].gid] # None )
                   => active_games[th[t].gid].keyword \in Range(global_used_keywords')
          /\ (th[t].pc = "eval_read" /\ th'[t].pc = "eval_call") =>
                th'[t].task = active_games[th[t].gid]
          /\ (th[t].op = "generate" /\ th'[t] # th[t]) =>
                /\ Len(global_used_keywords') >= Len(global_used_keywords)
                /\ \A i \in 1..Len(global_used_keywords) :
                      global_used_keywords'[i] = global_used_keywords[i]]_vars

\* a generate request has stored and returned a task with keyword "sea" on a
\* session, the keyword list holding "sun" from an earlier task before it
C25_Witness ==
    \E t \in Threads :
        /\ ReturnedFrom(t, "generate")
        /\ th[t].resp.kind = "ok"
        /\ th[t].up = "ok"
        /\ th[t].gid \in DOMAIN active_games
        /\ active_games[th[t].gid] = th[t].resp.body
        /\ th[t].resp.body.keyword = "sea"
        /\ global_used_keywords = << "sun", "sea" >>

\* C26: a generate request whose completion call fails changes no shared
\* state: the registry (so the value held for its id, None or the earlier
\* task) and the keyword list are as before, and the fallback task is in the
\* response only.
C26_FailedGenerateChangesNothing ==
    [][\A t \in Threads :
          (th[t].pc = "gen_call" /\ th'[t].pc = "ret" /\ th'[t].up = "fail") =>
             /\ active_games' = active_games
             /\ global_used_keywords' = global_used_keywords
             /\ th'[t].resp = [kind |-> "ok", body |-> FallbackTask(th[t].gid)]]_vars

\* a generate request on a session that holds a task has fallen back after an
\* upstream failure; the session still holds its task
C26_Witness ==
    \E t \in Threads :
        /\ ReturnedFrom(t, "generate")
        /\ th[t].up = "fail"
        /\ th[t].resp.body = FallbackTask(th[t].gid)
        /\ th[t].gid \in DOMAIN active_games
        /\ active_games[th[t].gid] # None
        /\ active_games[th[t].gid].keyword \in Range(global_used_keywords)

\* the history of the id of request c was cleaned up while c awaited its
\* completion call: a history only grows until it is cleaned up, and the one
\* that c copied on entry is gone or is no longer the beginning of the one
\* that exists
CutWhileAwaiting(c) ==
    LET seen == SubSeq(co[c].messages, 1, Len(co[c].messages) - 1)
    IN \/ co[c].gid \notin DOMAIN game_histories
       \/ Len(game_histories[co[c].gid]) < Len(seen)
       \/ SubSeq(game_histories[co[c].gid], 1, Len(seen)) # seen

\* C27 as stated: when the upstream answers a request whose history was
\* cleaned up while it awaited, the request returns the apology, and the
\* history of its id is neither created nor added to.
C27_CutRequestGetsApology ==
    [][\A c \in Coros :
          ( /\ co[c].pc = "await" /\ CutWhileAwaiting(c)
            /\ co'[c].pc = "ret" /\ co'[c].up = "ok" )
          => /\ co'[c].resp = Apology
             /\ co[c].gid \in DOMAIN game_histories' =>
                   /\ co[c].gid \in DOMAIN game_histories
                   /\ game_histories'[co[c].gid] = game_histories[co[c].gid]]_vars

\* C27 as amended: when the upstream answers a request whose history was
\* cleaned up while it awaited and no history exists for the id at that
\* moment, the request returns the apology and no history is created or
\* changed.  If a later request has seeded the id anew, the reply goes to the
\* new history and is returned (an end_game then removes that history).
C27_CutRequestWithoutHistoryGetsApology ==
    [][\A c \in Coros :
          ( /\ co[c].pc = "await" /\ CutWhileAwaiting(c)
            /\ co'[c].pc = "ret" /\ co'[c].up = "ok" )
          => IF co[c].gid \notin DOMAIN game_histories
             THEN /\ co'[c].resp = Apology
                  /\ game_histories' = game_histories
             ELSE /\ co'[c].resp \in Replies
                  /\ game_histories' =
                        AfterCall([game_histories EXCEPT ![co[c].gid] =
                                     Append(@, [role |-> "assistant",
                                                content |-> co'[c].resp])],
                                  co[c].kind, co[c].gid)]_vars

\* the upstream has answered a request whose history had been cleaned up by
\* an end_game request while it awaited; the request got the apology and its
\* id has no history
C27_Witness ==
    \E c, d \in Coros :
        /\ co[c].pc = "ret"
        /\ co[c].up = "ok"
        /\ co[c].resp = Apology
        /\ co[c].gid \notin DOMAIN game_histories
        /\ d # c
        /\ co[d].pc = "ret"
        /\ co[d].gid = co[c].gid
        /\ co[d].cleaned = "True"

\* C28: an evaluate request that fails on an unknown id or on a session
\* without a task changes neither the registry nor the keyword list and does
\* not call flush_game_data; a session without a task is still live and
\* without a task afterwards, so a generate request for it is taken up.
C28_FailedEvaluateDoesNotFlush ==
    [][\A t \in Threads :
          ( /\ th'[t] # th[t]
            /\ th'[t].pc = "ret"
            /\ th'[t].op = "evaluate"
            /\ th'[t].resp.kind \in {NotFound, InvalidState} )
          => /\ active_games' = active_games
             /\ global_used_keywords' = global_used_keywords
             /\ th'[t].flushed = "-"
             /\ th'[t].resp.kind = InvalidState =>
                   /\ th'[t].gid \in DOMAIN active_games'
                   /\ active_games'[th'[t].gid] = None]_vars

\* an evaluate request has failed for want of a task and has not flushed: its
\* session is live without a task, and another session holds its task
C28_Witness ==
    \E t \in Threads :
        /\ ReturnedFrom(t, "evaluate")
        /\ th[t].resp.kind = InvalidState
        /\ th[t].flushed = "-"
        /\ th[t].gid \in DOMAIN active_games
        /\ active_games[th[t].gid] = None
        /\ \E g \in DOMAIN active_games : active_games[g] # None

============================================================================
